---- MODULE Spec2Model ----
(***************************************************************************)
(* Game-plugin lifecycle of ar-cards-mvp: the GameRegistry                 *)
(* (src/src/utils/GameRegistry.js), the two generations of ARGameInterface *)
(* (src/src/utils/ARGameInterface.js and the later one appended to         *)
(* src/src/management/ARGamePickerManager.js), the GameEngine observer     *)
(* list (src/src/utils/GameEngine.js) and the WebXR session resource the   *)
(* interface acquires and releases.                                        *)
(***************************************************************************)
EXTENDS Integers, Sequences, FiniteSets, TLC

NULL == "null"

\* ------------------------------------------------------------------ bounds
MaxInstances == 2
MaxSessions == 1
MaxCalls == 2
MaxCount == 2
MaxObservers == 3
MaxObjects == 2
MaxFrames == 2
MaxPlayers == 3

InstIds == 1..MaxInstances
SessIds == 1..MaxSessions
CallIds == 1..MaxCalls

\* ------------------------------------------------------------ input domains
\* ids a caller passes; "" stands for a missing (falsy) id, "ghost" is never
\* registered
\* gameConfig objects a caller registers after construction; "" stands for
\* a missing (falsy) id or name
RegisterConfigs ==
  { [id |-> "chess-ar",  name |-> "Chess AR", isPlayable |-> TRUE,  createGame |-> "factory"],
    [id |-> "simple-ar", name |-> "Impostor", isPlayable |-> TRUE,  createGame |-> NULL],
    [id |-> "",          name |-> "Nameless", isPlayable |-> TRUE,  createGame |-> "factory"],
    [id |-> "chess-ar",  name |-> "",         isPlayable |-> TRUE,  createGame |-> "factory"] }
\* ids a caller passes; "chess-ar" is unknown until registered; NULL is no
\* argument
CallerIds == {"simple-ar", "uno-ar", "chess-ar", NULL}
FactoryOutcomes == {"ok", "null", "throw", "noEngine", "noInterface"}
Variants == {"early", "late"}

VARIABLES
  games,          \* GameRegistry.games: id -> descriptor
  selectedGameId, \* GameRegistry.selectedGameId
  activeGame,     \* GameRegistry.activeGame: NULL or [gameId, inst]
  inst,           \* every engine/interface pair a factory has produced
  sess,           \* the XRSession objects the device has handed out
  calls,          \* the registry's async calls in flight
  trace,          \* calls and notifications of the current registry operation
  last,           \* the last registry operation, its argument and its result
  actor,          \* who took the last step: the registry's code or the device
  generation,     \* which generation of GameEngine/ARGameInterface is installed
  eng,            \* one GameEngine studied on its own, with its last operation
  announced,      \* per pair, the last session notification a listener heard
  app             \* ARApp: its startAR invocations and which buttons it shows

vars == <<games, selectedGameId, activeGame, inst, sess, calls, trace, last,
          actor, generation, eng, announced, app>>

\* ------------------------------------------------------------- descriptors
Descriptor(name, isPlayable, createGame) ==
  [name |-> name, isPlayable |-> isPlayable, createGame |-> createGame]

InitialGames ==
  [id \in {"simple-ar", "uno-ar", "poker-ar"} |->
     CASE id = "simple-ar" -> Descriptor("Simple AR Test", TRUE, "factory")
       [] id = "uno-ar"    -> Descriptor("UNO AR", FALSE, NULL)
       [] id = "poker-ar"  -> Descriptor("Poker AR", FALSE, NULL)]

Put(f, k, v) == [x \in DOMAIN f \cup {k} |-> IF x = k THEN v ELSE f[x]]

\* trace entries: a lifecycle notification dispatched on window, or a call
\* the registry makes on (or a write it makes for) instance i
Evt(name, gameId) == [kind |-> "event", name |-> name, gameId |-> gameId, inst |-> 0]
Step(name, i) == [kind |-> "call", name |-> name, gameId |-> NULL, inst |-> i]
Call(name, gameId) == [kind |-> "call", name |-> name, gameId |-> gameId, inst |-> 0]

NoGame == [gameId |-> NULL, inst |-> 0]

IdleCall == [op |-> "idle", pc |-> "idle", target |-> NULL, inst |-> 0,
             pre |-> NoGame, retry |-> FALSE, busy |-> FALSE]
NoCallInFlight == \A c \in CallIds : calls[c].op = "idle"

\* counters of repeated calls saturate at MaxCount
Bump(n) == IF n < MaxCount THEN n + 1 ELSE MaxCount

\* --------------------------------------------------------------- the world
\* The objects a synchronous piece of code works on: the engine/interface
\* pairs, the XRSessions, the trace, and whether an exception is propagating.
World == [inst |-> inst, sess |-> sess, trace |-> trace, threw |-> FALSE]

Log(W, entry) == [W EXCEPT !.trace = Append(@, entry)]

Throw(W) == [W EXCEPT !.threw = TRUE]

\* ------------------------------------------------------ XRSession (device)
\* XRSession.end(): shuts the session down and queues its 'end' event; on a
\* session that is already shut down the returned promise rejects and
\* nothing else happens.
XRSessionEnd(W, s) ==
  [W EXCEPT !.sess[s].endCalls = Bump(@),
            !.sess[s].state = IF @ = "live" THEN "ending" ELSE @]

NewSession(i) == [state |-> "live", owner |-> i, listener |-> FALSE, endCalls |-> 0]

\* The device runs one immersive session at a time.
DeviceBusy == \E s \in 1..Len(sess) : sess[s].state \in {"live", "ending"}

\* navigator.xr.requestSession rejects at once while the device runs an
\* immersive session or another request for one is pending
RequestPending == \E d \in CallIds : calls[d].op = "start" /\ calls[d].pc = "acquire"
RequestRefused == DeviceBusy \/ RequestPending

\* ------------------------------------------------------ GameEngine (base)
\* Observer identities: the early interface subscribes the function it bound
\* once in its constructor; the late interface subscribes a fresh
\* bind() result and later asks to remove another fresh bind() result.
SubscribedObserver(variant) == IF variant = "early" THEN "onGameStateChange" ELSE "bound#ctor"
RemovedObserver(variant) == IF variant = "early" THEN "onGameStateChange" ELSE "bound#cleanup"

RemoveFromSeq(q, x) == SelectSeq(q, LAMBDA y : y # x)

EngineRemoveObserver(W, i, obs) ==
  [W EXCEPT !.inst[i].observers = RemoveFromSeq(@, obs)]

\* GameEngine.cleanup(), abstract-base generation: clears the observer set
\* first, then setState('cleanup') (which notifies the now empty set).
EngineCleanupLate(W, i) ==
  [W EXCEPT !.inst[i].observers = <<>>,
            !.inst[i].engState = "cleanup",
            !.inst[i].engCleanups = Bump(@)]

\* GameEngine.cleanup(), loop-driven generation: stop() (the loop is not
\* running, so it returns at once), observers = [], then notifies nobody.
EngineCleanupEarly(W, i) ==
  [W EXCEPT !.inst[i].observers = <<>>,
            !.inst[i].engCleanups = Bump(@)]

EngineCleanup(W, i) ==
  IF W.threw THEN W ELSE
  LET W1 == Log(W, Step("engine.cleanup", i)) IN
  IF W1.inst[i].variant = "late" THEN EngineCleanupLate(W1, i)
                                 ELSE EngineCleanupEarly(W1, i)

\* ------------------------------------------- ARGameInterface, late variant
\* endSession(): asks the session to end, if it holds one; isActive and the
\* session handle change only in onSessionEnded.
LateEndSession(W, i) ==
  IF W.inst[i].session # 0 THEN XRSessionEnd(W, W.inst[i].session) ELSE W

\* onSessionEnded(): the 'end' listener.  renderer.setAnimationLoop(null)
\* dereferences the renderer, which only setupScene() creates.
LateOnSessionEnded(W, i) ==
  LET W1 == [W EXCEPT !.inst[i].isActive = FALSE, !.inst[i].session = 0] IN
  IF W1.inst[i].renderer THEN W1 ELSE Throw(W1)

\* cleanup(): ends the session if active, calls removeObserver with a fresh
\* bind() result, drops the engine reference, the scene and the camera.
LateCleanup(W, i) ==
  LET W1 == IF W.inst[i].isActive THEN LateEndSession(W, i) ELSE W
      W2 == IF W1.inst[i].engineRef
              THEN EngineRemoveObserver(W1, i, RemovedObserver("late"))
              ELSE W1
  IN [W2 EXCEPT !.inst[i].engineRef = FALSE,
                !.inst[i].scene = FALSE,
                !.inst[i].ifaceCleanups = Bump(@)]

\* ------------------------------------------ ARGameInterface, early variant
\* handleSessionEnd(): clears isActive and the handle, detaches the renderer
\* if there is one, then removes reticle and controller from the scene.
EarlyHandleSessionEnd(W, i) ==
  LET W1 == [W EXCEPT !.inst[i].isActive = FALSE, !.inst[i].session = 0] IN
  IF ~W1.inst[i].reticle THEN W1
  ELSE IF W1.inst[i].scene THEN [W1 EXCEPT !.inst[i].reticle = FALSE]
  ELSE Throw(W1)

\* endSession(): xrSession.end() if a session is held, else the end handler
\* runs at once.
EarlyEndSession(W, i) ==
  IF W.inst[i].session # 0 THEN XRSessionEnd(W, W.inst[i].session)
                           ELSE EarlyHandleSessionEnd(W, i)

\* cleanup(): endSession() unconditionally, removeObserver with the function
\* bound in the constructor, then scene and renderer are disposed and nulled.
EarlyCleanup(W, i) ==
  LET W1 == EarlyEndSession(W, i) IN
  IF W1.threw THEN W1 ELSE
  LET W2 == IF W1.inst[i].engineRef
              THEN EngineRemoveObserver(W1, i, RemovedObserver("early"))
              ELSE W1
  IN [W2 EXCEPT !.inst[i].scene = FALSE,
                !.inst[i].renderer = FALSE,
                !.inst[i].ifaceCleanups = Bump(@)]

\* --------------------------------------------- the interface of instance i
InterfaceEndSession(W, i) ==
  IF W.threw THEN W ELSE
  LET W1 == Log(W, Step("interface.endSession", i)) IN
  IF W1.inst[i].variant = "late" THEN LateEndSession(W1, i)
                                 ELSE EarlyEndSession(W1, i)

InterfaceCleanup(W, i) ==
  IF W.threw THEN W ELSE
  LET W1 == Log(W, Step("interface.cleanup", i)) IN
  IF W1.inst[i].variant = "late" THEN LateCleanup(W1, i)
                                 ELSE EarlyCleanup(W1, i)

InterfaceOnEnd(W, i) ==
  IF W.inst[i].variant = "late" THEN LateOnSessionEnded(W, i)
                                ELSE EarlyHandleSessionEnd(W, i)

\* ------------------------------------------------------------ GameRegistry
\* last: what the caller did and got.  pre is the active-instance slot when
\* the operation was called; retry marks a startActiveGameSession issued
\* right after one that returned false for the same instance.
Done(op, arg, ret) ==
  [op |-> op, arg |-> arg, ret |-> ret, pre |-> activeGame, retry |-> FALSE]

Returned(c, op, arg, ret) ==
  [op |-> op, arg |-> arg, ret |-> ret, pre |-> calls[c].pre, retry |-> calls[c].retry]

\* busy marks an initialize() called on an interface that was not at rest:
\* already active, or with another initialize() of it still in flight
NotIdle(i) ==
  \/ inst[i].isActive
  \/ \E d \in CallIds : calls[d].op = "start" /\ calls[d].inst = i

IsRetry ==
  /\ last.op = "startActiveGameSession"
  /\ last.ret = "false"
  /\ last.pre = activeGame
  /\ activeGame # NoGame

\* registerGame(gameConfig)
RegisterGame(gameConfig) ==
  /\ trace' = <<>>
  /\ IF gameConfig.id = "" \/ gameConfig.name = ""
       THEN /\ last' = Done("registerGame", gameConfig.id, "throw")
            /\ games' = games
       ELSE /\ games' = Put(games, gameConfig.id,
                            Descriptor(gameConfig.name, gameConfig.isPlayable,
                                       gameConfig.createGame))
            /\ last' = Done("registerGame", gameConfig.id, "true")
  /\ UNCHANGED <<selectedGameId, activeGame, inst, sess, calls>>

\* selectGame(gameId)
KnownGame_Any(gameId) == TRUE

KnownGame(gameId) == gameId \in DOMAIN games

SelectGame(gameId) ==
  /\ IF ~KnownGame(gameId)
       THEN /\ last' = Done("selectGame", gameId, "false")
            /\ trace' = <<>>
            /\ selectedGameId' = selectedGameId
       ELSE /\ selectedGameId' = gameId
            /\ trace' = <<Evt("gameSelected", gameId)>>
            /\ last' = Done("selectGame", gameId, "true")
  /\ UNCHANGED <<games, activeGame, inst, sess, calls>>

\* getSelectedGame(): the selected descriptor, or null
NoDescriptor == Descriptor(NULL, FALSE, NULL)

GetSelectedGame ==
  IF selectedGameId = NULL THEN NoDescriptor
  ELSE IF selectedGameId \in DOMAIN games THEN games[selectedGameId] ELSE NoDescriptor

\* variants of cleanupActiveGame: engine.cleanup() left out; the
\* notification left out; engine.cleanup() before interface.cleanup()
CleanupActive_SkipEngine(W, ag) ==
  IF ag = NoGame THEN [w |-> W, active |-> ag]
  ELSE LET i  == ag.inst
           W1 == IF W.inst[i].isActive THEN InterfaceEndSession(W, i) ELSE W
           W2 == InterfaceCleanup(W1, i)
       IN [w |-> Log(Log(W2, Step("slot.clear", i)),
                     Evt("gameInstanceCleaned", ag.gameId)),
           active |-> NoGame]

CleanupActive_NoNotify(W, ag) ==
  IF ag = NoGame THEN [w |-> W, active |-> ag]
  ELSE LET i  == ag.inst
           W1 == IF W.inst[i].isActive THEN InterfaceEndSession(W, i) ELSE W
           W2 == InterfaceCleanup(W1, i)
           W3 == EngineCleanup(W2, i)
       IN [w |-> Log(W3, Step("slot.clear", i)), active |-> NoGame]

CleanupActive_EngineFirst(W, ag) ==
  IF ag = NoGame THEN [w |-> W, active |-> ag]
  ELSE LET i  == ag.inst
           W1 == IF W.inst[i].isActive THEN InterfaceEndSession(W, i) ELSE W
           W2 == EngineCleanup(W1, i)
           W3 == InterfaceCleanup(W2, i)
       IN [w |-> Log(Log(W3, Step("slot.clear", i)),
                     Evt("gameInstanceCleaned", ag.gameId)),
           active |-> NoGame]

\* cleanupActiveGame() on the slot value ag; yields the world and the slot
CleanupActive(W, ag) ==
  IF ag = NoGame THEN [w |-> W, active |-> ag]
  ELSE LET i  == ag.inst
           W1 == IF W.inst[i].isActive THEN InterfaceEndSession(W, i) ELSE W
           W2 == InterfaceCleanup(W1, i)
           W3 == EngineCleanup(W2, i)
       IN IF W3.threw
            THEN [w |-> [W3 EXCEPT !.threw = FALSE], active |-> ag]
            ELSE [w |-> Log(Log(W3, Step("slot.clear", i)),
                            Evt("gameInstanceCleaned", ag.gameId)),
                  active |-> NoGame]

CleanupActiveGame ==
  /\ LET R == CleanupActive([World EXCEPT !.trace = <<>>], activeGame) IN
       /\ inst' = R.w.inst
       /\ sess' = R.w.sess
       /\ trace' = R.w.trace
       /\ activeGame' = R.active
  /\ last' = Done("cleanupActiveGame", NULL, "undefined")
  /\ UNCHANGED <<games, selectedGameId, calls>>

\* endActiveGameSession()
EndActiveGameSession ==
  /\ IF activeGame = NoGame
       THEN /\ trace' = <<>>
            /\ UNCHANGED <<inst, sess>>
       ELSE LET W1 == InterfaceEndSession([World EXCEPT !.trace = <<>>], activeGame.inst)
                W2 == IF W1.threw THEN W1
                      ELSE Log(W1, Evt("gameSessionEnded", activeGame.gameId))
            IN /\ inst' = W2.inst
               /\ sess' = W2.sess
               /\ trace' = W2.trace
  /\ last' = Done("endActiveGameSession", NULL, "undefined")
  /\ UNCHANGED <<games, selectedGameId, activeGame, calls>>

\* createGameInstance(gameId = null): the synchronous part up to the first await
ResolveTarget(gameId) == IF gameId # NULL THEN gameId ELSE selectedGameId

CanCreate_IgnorePlayable(t) ==
  /\ t # NULL
  /\ t \in DOMAIN games

CanCreate(t) ==
  /\ t # NULL
  /\ t \in DOMAIN games
  /\ games[t].isPlayable
  /\ games[t].createGame # NULL

CreateGameInstance(c, gameId) ==
  /\ calls[c].op = "idle"
  /\ LET t == ResolveTarget(gameId) IN
     IF ~CanCreate(t)
       THEN /\ last' = Done("createGameInstance", gameId, "null")
            /\ trace' = <<>>
            /\ UNCHANGED <<activeGame, inst, sess, calls>>
       ELSE /\ Len(inst) < MaxInstances
            /\ last' = Done("createGameInstance", gameId, "pending")
            /\ IF activeGame # NoGame
                 THEN LET R == CleanupActive([World EXCEPT !.trace = <<>>], activeGame) IN
                      /\ inst' = R.w.inst
                      /\ sess' = R.w.sess
                      /\ trace' = R.w.trace
                      /\ activeGame' = R.active
                      /\ calls' = [calls EXCEPT ![c] =
                            [op |-> "create", pc |-> "cleaned", target |-> t, inst |-> 0,
                             pre |-> activeGame, retry |-> FALSE, busy |-> FALSE]]
                 ELSE /\ trace' = <<Call("factory", t)>>
                      /\ calls' = [calls EXCEPT ![c] =
                            [op |-> "create", pc |-> "factory", target |-> t, inst |-> 0,
                             pre |-> activeGame, retry |-> FALSE, busy |-> FALSE]]
                      /\ UNCHANGED <<activeGame, inst, sess>>
  /\ UNCHANGED <<games, selectedGameId>>

\* createGameInstance resumes after `await this.cleanupActiveGame()` and
\* invokes the descriptor's factory
CreateInvokeFactory(c) ==
  /\ calls[c].op = "create"
  /\ calls[c].pc = "cleaned"
  /\ trace' = Append(trace, Call("factory", calls[c].target))
  /\ calls' = [calls EXCEPT ![c].pc = "factory"]
  /\ UNCHANGED <<games, selectedGameId, activeGame, inst, sess, last>>

\* what a factory hands back: an object with or without engine/interface,
\* null, or a rejection
FactoryResult(outcome) ==
  [returned |-> IF outcome \in {"null", "throw"} THEN outcome ELSE "object",
   hasEngine |-> outcome \in {"ok", "noInterface"},
   hasInterface |-> outcome \in {"ok", "noEngine"}]

ValidInstance_IgnoresInterface(r) == r.returned = "object" /\ r.hasEngine

ValidInstance(r) == r.returned = "object" /\ r.hasEngine /\ r.hasInterface

\* the pair a factory builds: the interface constructor subscribes to the
\* engine, the factory initializes the game (state 'playing')
NewInstance(variant, r) ==
  [variant |-> variant, hasEngine |-> r.hasEngine, hasInterface |-> r.hasInterface,
   isActive |-> FALSE, session |-> 0, scene |-> FALSE, renderer |-> FALSE,
   reticle |-> FALSE, engineRef |-> TRUE, ifaceCleanups |-> 0,
   engState |-> "playing", observers |-> <<SubscribedObserver(variant)>>,
   engCleanups |-> 0]

\* createGameInstance resumes after `await game.createGame()`
CreateFactorySettles(c, outcome, variant) ==
  /\ calls[c].op = "create"
  /\ calls[c].pc = "factory"
  /\ LET r == FactoryResult(outcome)
         t == calls[c].target
         n == Len(inst) + 1
     IN /\ inst' = IF r.returned = "object" THEN Append(inst, NewInstance(variant, r))
                                             ELSE inst
        /\ IF ValidInstance(r)
             THEN /\ activeGame' = [gameId |-> t, inst |-> n]
                  /\ trace' = Append(trace, Evt("gameInstanceCreated", t))
                  /\ last' = Returned(c, "createGameInstance", t, "instance")
             ELSE /\ last' = Returned(c, "createGameInstance", t, "null")
                  /\ UNCHANGED <<activeGame, trace>>
  /\ calls' = [calls EXCEPT ![c] = IdleCall]
  /\ UNCHANGED <<games, selectedGameId, sess>>

\* ------------------------------------- startActiveGameSession / initialize
\* variant: announces the session and returns true whatever initialize() produced
StartReturns_AlwaysAnnounce(c, I, S, success) ==
  /\ inst' = I
  /\ sess' = S
  /\ calls' = [calls EXCEPT ![c] = IdleCall]
  /\ trace' = Append(Append(trace, Step(IF success THEN "initialize.ok" ELSE "initialize.failed",
                                        calls[c].inst)),
                     Evt("gameSessionStarted", activeGame.gameId))
  /\ last' = Returned(c, "startActiveGameSession", NULL, "true")
  /\ UNCHANGED <<games, selectedGameId, activeGame>>

\* startActiveGameSession resumes after `await interface.initialize()`:
\* the interface's state is (I, S), success is what initialize() produced
\* (a rejection counts as failure: the registry catches it)
StartReturns(c, I, S, success) ==
  /\ inst' = I
  /\ sess' = S
  /\ calls' = [calls EXCEPT ![c] = IdleCall]
  /\ LET tr == Append(trace, Step(IF success THEN "initialize.ok" ELSE "initialize.failed",
                                    calls[c].inst))
     IN IF success /\ activeGame # NoGame
          THEN /\ trace' = Append(tr, Evt("gameSessionStarted", activeGame.gameId))
               /\ last' = Returned(c, "startActiveGameSession", NULL, "true")
          ELSE /\ trace' = tr
               /\ last' = Returned(c, "startActiveGameSession", NULL, "false")
  /\ UNCHANGED <<games, selectedGameId, activeGame>>

\* startActiveGameSession(): up to initialize()'s first await
\* (navigator.xr.isSessionSupported)
StartActiveGameSession(c, xrPresent) ==
  /\ calls[c].op = "idle"
  /\ IF activeGame = NoGame
       THEN /\ trace' = <<>>
            /\ last' = Done("startActiveGameSession", NULL, "false")
            /\ UNCHANGED <<games, selectedGameId, activeGame, inst, sess, calls>>
       ELSE IF ~xrPresent
       THEN /\ trace' = <<Step("interface.initialize", activeGame.inst),
                          Step("initialize.failed", activeGame.inst)>>
            /\ last' = [Done("startActiveGameSession", NULL, "false") EXCEPT !.retry = IsRetry]
            /\ UNCHANGED <<games, selectedGameId, activeGame, inst, sess, calls>>
       ELSE /\ trace' = <<Step("interface.initialize", activeGame.inst)>>
            /\ last' = [Done("startActiveGameSession", NULL, "pending") EXCEPT !.retry = IsRetry]
            /\ calls' = [calls EXCEPT ![c] =
                  [op |-> "start", pc |-> "support", target |-> activeGame.gameId,
                   inst |-> activeGame.inst, pre |-> activeGame, retry |-> IsRetry,
                   busy |-> NotIdle(activeGame.inst)]]
            /\ UNCHANGED <<games, selectedGameId, activeGame, inst, sess>>

\* isSessionSupported settles; the early variant then builds renderer, scene
\* and camera; both variants call navigator.xr.requestSession
InitSupportSettles(c, supported) ==
  /\ calls[c].op = "start"
  /\ calls[c].pc = "support"
  /\ LET i == calls[c].inst IN
     IF ~supported
       THEN StartReturns(c, inst, sess, FALSE)
       ELSE /\ inst' = IF inst[i].variant = "early"
                          THEN [inst EXCEPT ![i].renderer = TRUE, ![i].scene = TRUE]
                          ELSE inst
            /\ calls' = [calls EXCEPT ![c].pc = IF RequestRefused THEN "refused"
                                                                   ELSE "acquire"]
            /\ UNCHANGED <<games, selectedGameId, activeGame, sess, trace, last>>

\* requestSession settles.  Late variant: keeps the handle, registers the
\* 'end' listener, requests the reference space.  Early variant:
\* setupXRSession() (renderer.xr.setSession, reticle, controller, 'end'
\* listener, render loop), then isActive = true.
InitAcquireSettles(c, granted) ==
  /\ calls[c].op = "start"
  /\ calls[c].pc \in {"acquire", "refused"}
  /\ granted => calls[c].pc = "acquire" /\ ~DeviceBusy /\ Len(sess) < MaxSessions
  /\ LET i == calls[c].inst
         s == Len(sess) + 1
     IN IF ~granted
          THEN StartReturns(c, inst, sess, FALSE)
          ELSE IF inst[i].variant = "late"
          THEN /\ inst' = [inst EXCEPT ![i].session = s]
               /\ sess' = Append(sess, [NewSession(i) EXCEPT !.listener = TRUE])
               /\ calls' = [calls EXCEPT ![c].pc = "refSpace"]
               /\ UNCHANGED <<games, selectedGameId, activeGame, trace, last>>
          ELSE IF ~inst[i].renderer
          THEN StartReturns(c, [inst EXCEPT ![i].session = s],
                            Append(sess, NewSession(i)), FALSE)
          ELSE StartReturns(c,
                 [inst EXCEPT ![i].session = s, ![i].reticle = TRUE, ![i].isActive = TRUE],
                 Append(sess, [NewSession(i) EXCEPT !.listener = TRUE]), TRUE)

\* late variant: requestReferenceSpace settles; setupScene(); setupHitTesting()
\* dereferences this.session
InitRefSpaceSettles(c, ok) ==
  /\ calls[c].op = "start"
  /\ calls[c].pc = "refSpace"
  /\ LET i == calls[c].inst IN
     IF ~ok
       THEN StartReturns(c, inst, sess, FALSE)
       ELSE LET I == [inst EXCEPT ![i].scene = TRUE, ![i].renderer = TRUE] IN
            IF I[i].session = 0
              THEN StartReturns(c, I, sess, FALSE)
              ELSE /\ inst' = I
                   /\ calls' = [calls EXCEPT ![c].pc = "hitTest"]
                   /\ UNCHANGED <<games, selectedGameId, activeGame, sess, trace, last>>

\* late variant: setupHitTesting() settles (its own failures are caught);
\* controllers, exit button and createGameObjects() need the scene;
\* createGameObjects is the game's hook and may throw; then
\* renderer.xr.setSession is awaited
InitHitTestSettles(c, objectsOk) ==
  /\ calls[c].op = "start"
  /\ calls[c].pc = "hitTest"
  /\ LET i == calls[c].inst IN
     IF ~objectsOk \/ ~inst[i].scene
       THEN StartReturns(c, inst, sess, FALSE)
       ELSE /\ calls' = [calls EXCEPT ![c].pc = "bind"]
            /\ UNCHANGED <<games, selectedGameId, activeGame, inst, sess, trace, last>>

\* late variant: renderer.xr.setSession settles; render loop; isActive = true
InitBindSettles(c, ok) ==
  /\ calls[c].op = "start"
  /\ calls[c].pc = "bind"
  /\ LET i == calls[c].inst IN
     IF ~ok
       THEN StartReturns(c, inst, sess, FALSE)
       ELSE StartReturns(c, [inst EXCEPT ![i].isActive = TRUE], sess, TRUE)

\* ------------------------------------------------------------ environment
\* the user leaves AR or the device shuts the session down
DeviceEndsSession(s) ==
  /\ s \in 1..Len(sess)
  /\ sess[s].state = "live"
  /\ sess' = [sess EXCEPT ![s].state = "ending"]
  /\ UNCHANGED <<games, selectedGameId, activeGame, inst, calls, trace, last>>

\* the queued 'end' event of session s is dispatched to its listener; an
\* exception of the listener ends that task only
DeliverEndEvent(s) ==
  /\ s \in 1..Len(sess)
  /\ sess[s].state = "ending"
  /\ LET W0 == [World EXCEPT !.sess[s].state = "ended"]
         W1 == IF sess[s].listener THEN InterfaceOnEnd(W0, sess[s].owner) ELSE W0
     IN /\ inst' = W1.inst
        /\ sess' = W1.sess
  /\ UNCHANGED <<games, selectedGameId, activeGame, calls, trace, last>>

\* ------------------------------------------------- GameEngine on its own
\* Callbacks a collaborator may subscribe.  "plain" only looks at the event
\* (the interface's onGameStateChange), "thrower" throws, "selfRemover"
\* unsubscribes itself, "otherRemover" unsubscribes "plain", "publisher"
\* answers an event by calling setState unless it is already running.
ObserverIds == {"plain", "thrower", "selfRemover", "otherRemover", "publisher"}
PlayerIds == {"p1", "p2", "p3"}
ObjectIds == 1..MaxObjects

\* new GameEngine(gameId) / new SimpleARGameEngine(): state 'initialized',
\* nobody subscribed, empty roster, nothing placed.  op, ret, pub and log
\* describe the last operation called on the engine: the event names it
\* published, in order, and every callback entry, return and throw.
\* the object limit a game has when its config names none
DefaultMaxObjects == MaxObjects

NewEngine ==
  [gameState |-> "initialized", observers |-> <<>>, players |-> <<>>,
   placedObjects |-> <<>>, maxObjects |-> DefaultMaxObjects,
   isRunning |-> FALSE, cleaned |-> FALSE, frames |-> 0,
   op |-> "constructor", arg |-> NULL, ret |-> "undefined", pub |-> <<>>, log |-> <<>>]

ELog(E, o, ev, kind) == [E EXCEPT !.log = Append(@, [obs |-> o, ev |-> ev, kind |-> kind])]

IndexOf(q, x) ==
  IF \E k \in 1..Len(q) : q[k] = x
    THEN CHOOSE k \in 1..Len(q) : q[k] = x /\ \A j \in 1..(k - 1) : q[j] # x
    ELSE 0

Splice(q, k) == SubSeq(q, 1, k - 1) \o SubSeq(q, k + 1, Len(q))

ObserversRemove_DropLast(E, o) ==
  LET k == IF IndexOf(E.observers, o) = 0 THEN Len(E.observers) ELSE IndexOf(E.observers, o) IN
  IF k = 0 THEN E ELSE [E EXCEPT !.observers = Splice(@, k)]

\* removeObserver: Set.delete in the abstract-base generation, indexOf and
\* splice of the first occurrence in the loop-driven one
ObserversRemove(E, o) ==
  LET k == IndexOf(E.observers, o) IN
  IF k = 0 THEN E ELSE [E EXCEPT !.observers = Splice(@, k)]

\* addObserver: Set.add keeps one entry per function, Array.push appends
ObserversAdd(E, o) ==
  IF generation = "late" /\ IndexOf(E.observers, o) # 0 THEN E
  ELSE [E EXCEPT !.observers = Append(@, o)]

RECURSIVE NotifyLate(_, _, _), NotifyEarly(_, _, _, _), Callback(_, _, _)

IsLate == generation = "late"

\* an event enters pub with the list of observers subscribed at that moment
\* what an event carries besides its type: the {previousState, newState} of
\* a stateChanged, nothing the model looks at otherwise
NoData == [previousState |-> "none", newState |-> "none"]

Publish(E, name, data) ==
  [E EXCEPT !.pub = Append(@, [name |-> name, subs |-> E.observers, data |-> data])]

\* this.observers.forEach(...)
ForEachObserver(E, ev) ==
  IF IsLate THEN NotifyLate(E, ev, {}) ELSE NotifyEarly(E, ev, 1, Len(E.observers))

NotifyObservers_StopAtThrow(E, name, data) ==
  LET E1 == Publish(E, name, data)
      k  == IndexOf(E.observers, "thrower")
  IN IF k = 0 THEN ForEachObserver(E1, Len(E1.pub))
     ELSE LET R == ForEachObserver([E1 EXCEPT !.observers = SubSeq(@, 1, k)], Len(E1.pub))
          IN [R EXCEPT !.observers = @ \o SubSeq(E.observers, k + 1, Len(E.observers))]

\* notifyObservers(eventType, data): forEach calls each observer inside
\* try/catch
NotifyObservers(E, name, data) ==
  LET E1 == Publish(E, name, data) IN ForEachObserver(E1, Len(E1.pub))

\* setState(newState): assigns, then notifies 'stateChanged'
EngineSetState(E, newState) ==
  NotifyObservers([E EXCEPT !.gameState = newState], "stateChanged",
                  [previousState |-> E.gameState, newState |-> newState])

\* callback o has been entered and has not returned
Running(E, o) ==
  Len(SelectSeq(E.log, LAMBDA x : x.obs = o /\ x.kind = "enter")) >
  Len(SelectSeq(E.log, LAMBDA x : x.obs = o /\ x.kind # "enter"))

\* one observer call with its try/catch
Callback(E, o, ev) ==
  LET E1 == ELog(E, o, ev, "enter") IN
  CASE o = "thrower"      -> ELog(E1, o, ev, "throw")
    [] o = "selfRemover"  -> ELog(ObserversRemove(E1, o), o, ev, "return")
    [] o = "otherRemover" -> ELog(ObserversRemove(E1, "plain"), o, ev, "return")
    [] o = "publisher"    ->
         ELog(IF ~Running(E, o) THEN EngineSetState(E1, E1.gameState) ELSE E1,
              o, ev, "return")
    [] OTHER              -> ELog(E1, o, ev, "return")

\* Set.prototype.forEach: walks the live set in insertion order; an entry
\* deleted before its turn is not visited
NotifyLate(E, ev, visited) ==
  LET rest == SelectSeq(E.observers, LAMBDA o : o \notin visited) IN
  IF rest = <<>> THEN E
  ELSE NotifyLate(Callback(E, rest[1], ev), ev, visited \cup {rest[1]})

\* Array.prototype.forEach: indices 0..len-1 with len read once at the
\* start; an index past the current end is skipped
NotifyEarly(E, ev, k, len) ==
  IF k > len THEN E
  ELSE IF k > Len(E.observers) THEN NotifyEarly(E, ev, k + 1, len)
  ELSE NotifyEarly(Callback(E, E.observers[k], ev), ev, k + 1, len)

\* engine operations: each starts with an empty record of what it published
EngBegin == [eng EXCEPT !.pub = <<>>, !.log = <<>>]

EngDone(E, op, arg, ret) == eng' = [E EXCEPT !.op = op, !.arg = arg, !.ret = ret]

\* addObserver(observer)
AddObserver(o) ==
  /\ Len(eng.observers) < MaxObservers
  /\ EngDone(ObserversAdd(EngBegin, o), "addObserver", o,
             IF IsLate THEN "undefined" ELSE "true")

\* removeObserver(observer)
RemoveObserver(o) ==
  EngDone(ObserversRemove(EngBegin, o), "removeObserver", o,
          IF IsLate THEN "undefined"
          ELSE IF IndexOf(eng.observers, o) # 0 THEN "true" ELSE "false")

\* playerData.id of an addPlayer call: absent, or some id
PlayerData == {"none"} \cup PlayerIds

\* the id under which addPlayer(p, playerData) files the player: the
\* abstract-base engine builds {id: playerId, ...playerData, joinedAt} and
\* finds players by that record's id; the loop-driven one keys a Map by
\* playerId
StoredId(p, d) == IF IsLate /\ d # "none" THEN d ELSE p

\* addPlayer: the abstract-base engine rejects an id already in the roster;
\* the loop-driven one does Map.set and notifies in every case
EngineAddPlayer(E, p, d) ==
  IF IndexOf(E.players, p) # 0
    THEN IF IsLate THEN [E EXCEPT !.ret = "false"]
         ELSE [NotifyObservers(E, "playerAdded", NoData) EXCEPT !.ret = "player"]
    ELSE [NotifyObservers([E EXCEPT !.players = Append(@, StoredId(p, d))], "playerAdded", NoData)
            EXCEPT !.ret = IF IsLate THEN "true" ELSE "player"]

AddPlayer(p, d) ==
  /\ Len(eng.players) < MaxPlayers
  /\ LET E == EngineAddPlayer(EngBegin, p, d) IN EngDone(E, "addPlayer", p, E.ret)

\* removePlayer(playerId)
RemovePlayer(p) ==
  LET k == IndexOf(eng.players, p) IN
  IF k = 0 THEN EngDone(EngBegin, "removePlayer", p, "false")
  ELSE EngDone(NotifyObservers([EngBegin EXCEPT !.players = Splice(@, k)], "playerRemoved", NoData),
               "removePlayer", p, "true")

GetNextPlayerOf_NoWrap(E, p) ==
  LET k == IndexOf(E.players, p) IN
  IF k = 0 \/ k = Len(E.players) THEN "null" ELSE E.players[k + 1]

\* getNextPlayer(currentPlayerId): findIndex by id, then the record at
\* (currentIndex + 1) % players.length (indices from 0 in the source)
GetNextPlayerOf(E, p) ==
  LET k == IndexOf(E.players, p) IN
  IF k = 0 THEN "null" ELSE E.players[(k % Len(E.players)) + 1]

GetNextPlayer(p) ==
  /\ IsLate
  /\ EngDone(EngBegin, "getNextPlayer", p, GetNextPlayerOf(EngBegin, p))

\* config.maxObjects of initializeGame(config): 0 stands for a config that
\* names no limit
ConfigMaxObjects == 0..MaxObjects

\* initializeGame(config): the abstract-base game takes
\* config.maxObjects || 10 and empties placedObjects, the loop-driven game
\* merges the config into its own and adds 'local-player'; both then
\* setState('playing')
InitializeGame(cfg) ==
  LET E1 == IF IsLate
              THEN [EngBegin EXCEPT !.placedObjects = <<>>,
                                    !.maxObjects = IF cfg = 0 THEN DefaultMaxObjects ELSE cfg]
              ELSE EngineAddPlayer([EngBegin EXCEPT !.maxObjects = IF cfg = 0 THEN @ ELSE cfg],
                                   "local-player", "none")
  IN EngDone(EngineSetState(E1, "playing"), "initializeGame", NULL, "true")

\* serializeState(): the state value, the roster, the placed objects and
\* the limit
SerializeState(E) ==
  [gameState |-> E.gameState, players |-> E.players,
   placedObjects |-> E.placedObjects, maxObjects |-> E.maxObjects]

\* snapshots that serializeState() produced at some time and a holder kept
StoredSnapshots ==
  [gameState : {"initialized", "playing", "cleanup"},
   players : {<<>>, <<"p1">>},
   placedObjects : {<<>>, <<1>>},
   maxObjects : 1..MaxObjects]

EngineDeserializeState_KeepObjects(E, snap) ==
  NotifyObservers([E EXCEPT !.gameState = snap.gameState,
                            !.players = snap.players,
                            !.maxObjects = IF snap.maxObjects = 0 THEN DefaultMaxObjects
                                                                  ELSE snap.maxObjects],
                  "stateRestored", NoData)

\* deserializeState(serializedState): assigns the four fields (a missing
\* limit becomes 10) and notifies 'stateRestored'
EngineDeserializeState(E, snap) ==
  NotifyObservers([E EXCEPT !.gameState = snap.gameState,
                            !.players = snap.players,
                            !.placedObjects = snap.placedObjects,
                            !.maxObjects = IF snap.maxObjects = 0 THEN DefaultMaxObjects
                                                                  ELSE snap.maxObjects],
                  "stateRestored", NoData)

DeserializeState(snap) ==
  /\ IsLate
  /\ EngDone(EngineDeserializeState(EngBegin, snap), "deserializeState", "stored", "undefined")

\* deserializeState(serializeState()) on the engine itself
RestoreOwnState ==
  /\ IsLate
  /\ EngDone(EngineDeserializeState(EngBegin, SerializeState(EngBegin)),
             "deserializeState", "own", "undefined")

ValidateState_Any(E, expectedStates) == TRUE

\* validateState(expectedStates)
ValidateState(E, expectedStates) == E.gameState \in expectedStates

\* data of an action: -1 is no data object at all, 0 a data object naming
\* no placed object, k > 0 a data object whose objectId is object k
ActionData == {-1} \cup {0} \cup ObjectIds
ActionNames == {"placeObject", "removeObject", "dance"}

FreshObjectId(E) ==
  CHOOSE k \in ObjectIds :
    /\ IndexOf(E.placedObjects, k) = 0
    /\ \A j \in ObjectIds : IndexOf(E.placedObjects, j) = 0 => k <= j

HandlePlaceObject_NoLimit(E, data) ==
  IF data = -1 THEN [E EXCEPT !.ret = "throw"]
  ELSE [NotifyObservers([E EXCEPT !.placedObjects = Append(@, FreshObjectId(E))],
                        "objectPlaced", NoData) EXCEPT !.ret = "true"]

\* handlePlaceObject(playerId, data)
HandlePlaceObject(E, data) ==
  IF Len(E.placedObjects) >= E.maxObjects THEN [E EXCEPT !.ret = "false"]
  ELSE IF data = -1 THEN [E EXCEPT !.ret = "throw"]
  ELSE [NotifyObservers([E EXCEPT !.placedObjects = Append(@, FreshObjectId(E))],
                        "objectPlaced", NoData) EXCEPT !.ret = "true"]

\* handleRemoveObject(playerId, data)
HandleRemoveObject(E, data) ==
  IF data = -1 THEN [E EXCEPT !.ret = "throw"]
  ELSE LET k == IndexOf(E.placedObjects, data) IN
       IF k = 0 THEN [E EXCEPT !.ret = "false"]
       ELSE [NotifyObservers([E EXCEPT !.placedObjects = Splice(@, k)],
                             "objectRemoved", NoData) EXCEPT !.ret = "true"]

\* processAction(playerId, action, data) of the abstract-base game
EngineProcessAction(E, p, action, data) ==
  IF ~ValidateState(E, {"playing"}) THEN [E EXCEPT !.ret = "false"]
  ELSE IF action = "placeObject" THEN HandlePlaceObject(E, data)
  ELSE IF action = "removeObject" THEN HandleRemoveObject(E, data)
  ELSE [E EXCEPT !.ret = "false"]

ProcessAction(p, action, data) ==
  /\ IsLate
  /\ LET E == EngineProcessAction(EngBegin, p, action, data)
     IN EngDone(E, "processAction", action, E.ret)

\* spawnObject(type, position) of the loop-driven game: null at the limit,
\* else the object is stored and 'objectSpawned' published
EngineSpawnObject(E) ==
  IF Len(E.placedObjects) >= E.maxObjects THEN [E EXCEPT !.ret = "null"]
  ELSE [NotifyObservers([E EXCEPT !.placedObjects = Append(@, FreshObjectId(E))],
                        "objectSpawned", NoData) EXCEPT !.ret = "object"]

\* removeObject(objectId) of the loop-driven game
EngineRemoveObject(E, k) ==
  LET j == IndexOf(E.placedObjects, k) IN
  IF j = 0 THEN [E EXCEPT !.ret = "false"]
  ELSE [NotifyObservers([E EXCEPT !.placedObjects = Splice(@, j)],
                        "objectRemoved", NoData) EXCEPT !.ret = "true"]

RECURSIVE EngineClear(_)
\* handleClear(): removeObject for every object held
EngineClear(E) ==
  IF E.placedObjects = <<>> THEN E
  ELSE EngineClear(EngineRemoveObject(E, E.placedObjects[1]))

InputTypes == {"tap", "spawn", "clear", "shake"}

\* handleInput(inputType, data) of the loop-driven game
EngineHandleInput(E, inputType) ==
  IF inputType \in {"tap", "spawn"} THEN EngineSpawnObject(E)
  ELSE IF inputType = "clear" THEN EngineClear(E)
  ELSE E

SpawnObject ==
  /\ ~IsLate
  /\ LET E == EngineSpawnObject(EngBegin) IN EngDone(E, "spawnObject", NULL, E.ret)

RemoveObject(k) ==
  /\ ~IsLate
  /\ LET E == EngineRemoveObject(EngBegin, k) IN EngDone(E, "removeObject", NULL, E.ret)

HandleInput(inputType) ==
  /\ ~IsLate
  /\ EngDone(EngineHandleInput(EngBegin, inputType), "handleInput", inputType, "undefined")

\* stop() of the loop-driven engine
EngineStop(E) ==
  IF ~E.isRunning THEN E
  ELSE NotifyObservers(EngineSetState([E EXCEPT !.isRunning = FALSE], "stopped"),
                       "gameStopped", NoData)

\* gameLoop(): update(deltaTime) publishes objectsUpdated, then the next
\* animation frame is requested
EngineGameLoop(E) ==
  IF ~E.isRunning THEN E
  ELSE [NotifyObservers(E, "objectsUpdated", NoData) EXCEPT !.frames = @ + 1]

\* start() of the loop-driven engine
Start ==
  /\ ~IsLate
  /\ eng.frames < MaxFrames
  /\ LET E == IF eng.isRunning THEN EngBegin
              ELSE EngineGameLoop(NotifyObservers(
                     EngineSetState([EngBegin EXCEPT !.isRunning = TRUE], "running"),
                     "gameStarted", NoData))
     IN EngDone(E, "start", NULL, "undefined")

Stop ==
  /\ ~IsLate
  /\ EngDone(EngineStop(EngBegin), "stop", NULL, "undefined")

\* a requested animation frame fires
AnimationFrame ==
  /\ ~IsLate
  /\ eng.frames > 0
  /\ EngDone(EngineGameLoop([EngBegin EXCEPT !.frames = @ - 1]), "gameLoop", NULL, "undefined")

\* cleanup(): the abstract-base engine clears observers, roster and game
\* data and then setState('cleanup'); the loop-driven game clears its
\* objects, stops, drops observers and roster and then notifies 'cleanup'
Cleanup ==
  LET E == IF IsLate
             THEN EngineSetState([EngBegin EXCEPT !.observers = <<>>, !.players = <<>>],
                                 "cleanup")
             ELSE NotifyObservers(
                    [EngineStop([EngBegin EXCEPT !.placedObjects = <<>>])
                       EXCEPT !.observers = <<>>, !.players = <<>>], "cleanup", NoData)
  IN EngDone([E EXCEPT !.cleaned = TRUE], "cleanup", NULL, "undefined")

\* ------------------------------------------------------------ specification
\* ARApp after init(): no startAR() running, the start button shown and the
\* end button hidden (the state onGameSessionEnded resets the page to)
NewApp == [start |-> [c \in CallIds |-> "idle"], startShown |-> TRUE, endShown |-> FALSE]

Init ==
  /\ games = InitialGames
  /\ selectedGameId = NULL
  /\ activeGame = NoGame
  /\ inst = <<>>
  /\ sess = <<>>
  /\ calls = [c \in CallIds |-> IdleCall]
  /\ trace = <<>>
  /\ last = [op |-> "constructor", arg |-> NULL, ret |-> "undefined",
             pre |-> NoGame, retry |-> FALSE]
  /\ actor = "registry"
  /\ generation \in Variants
  /\ eng = NewEngine
  /\ announced = [i \in InstIds |-> "none"]
  /\ app = NewApp

\* a correct caller issues a registry operation only when none is in flight
Caller(A) == NoCallInFlight /\ A /\ actor' = "registry" /\ UNCHANGED <<generation, eng, announced, app>>

\* a suspended call resumes
Resume(A) == A /\ actor' = "registry" /\ UNCHANGED <<generation, eng, announced, app>>

\* the device acts
Device(A) == A /\ actor' = "device" /\ UNCHANGED <<generation, eng, announced, app>>

\* The application as it runs: the catalogue is the one built at construction
\* (registerGame is only called from initializeGames), the caller selects,
\* creates, starts, ends and cleans up, and the device ends sessions.
Next ==
  \/ \E g \in CallerIds : Caller(SelectGame(g))
  \/ \E g \in CallerIds : Caller(CreateGameInstance(1, g))
  \/ \E x \in BOOLEAN : Caller(StartActiveGameSession(1, x))
  \/ Caller(EndActiveGameSession)
  \/ Caller(CleanupActiveGame)
  \/ \E c \in CallIds : Resume(CreateInvokeFactory(c))
  \/ \E c \in CallIds, o \in FactoryOutcomes :
        Resume(CreateFactorySettles(c, o, generation))
  \/ \E c \in CallIds, b \in BOOLEAN : Resume(InitSupportSettles(c, b))
  \/ \E c \in CallIds, b \in BOOLEAN : Resume(InitAcquireSettles(c, b))
  \/ \E c \in CallIds, b \in BOOLEAN : Resume(InitRefSpaceSettles(c, b))
  \/ \E c \in CallIds, b \in BOOLEAN : Resume(InitHitTestSettles(c, b))
  \/ \E c \in CallIds, b \in BOOLEAN : Resume(InitBindSettles(c, b))
  \/ \E s \in SessIds : Device(DeviceEndsSession(s))
  \/ \E s \in SessIds : Device(DeliverEndEvent(s))

Spec == Init /\ [][Next]_vars

\* The registry as a catalogue: any sequence of registerGame calls after
\* construction, with selection, creation and cleanup; no session is started.
NextCatalogue ==
  \/ \E cfg \in RegisterConfigs : Caller(RegisterGame(cfg))
  \/ \E g \in CallerIds : Caller(SelectGame(g))
  \/ \E g \in CallerIds : Caller(CreateGameInstance(1, g))
  \/ Caller(CleanupActiveGame)
  \/ \E c \in CallIds : Resume(CreateInvokeFactory(c))
  \/ \E c \in CallIds, o \in FactoryOutcomes :
        Resume(CreateFactorySettles(c, o, generation))

SpecCatalogue == Init /\ [][NextCatalogue]_vars

\* The host's event loop: a call suspended at an await resumes once the
\* promise it awaits settles.  Nothing obliges the device to end a session
\* or to dispatch its 'end' event, and nothing obliges the caller to call.
ResumeStep ==
  \/ \E c \in CallIds : Resume(CreateInvokeFactory(c))
  \/ \E c \in CallIds, o \in FactoryOutcomes :
        Resume(CreateFactorySettles(c, o, generation))
  \/ \E c \in CallIds, b \in BOOLEAN : Resume(InitSupportSettles(c, b))
  \/ \E c \in CallIds, b \in BOOLEAN : Resume(InitAcquireSettles(c, b))
  \/ \E c \in CallIds, b \in BOOLEAN : Resume(InitRefSpaceSettles(c, b))
  \/ \E c \in CallIds, b \in BOOLEAN : Resume(InitHitTestSettles(c, b))
  \/ \E c \in CallIds, b \in BOOLEAN : Resume(InitBindSettles(c, b))

SpecSettling == Spec /\ WF_vars(ResumeStep)

\* A caller that does not wait for startActiveGameSession() to settle: it
\* may call it again, or end the session, while initialize() is suspended.
Overlapping(A) ==
  /\ \A c \in CallIds : calls[c].op \in {"idle", "start"}
  /\ A
  /\ actor' = "registry"
  /\ UNCHANGED <<generation, eng, announced, app>>

NextOverlap ==
  \/ Caller(CreateGameInstance(1, "simple-ar"))
  \/ \E c \in CallIds, x \in BOOLEAN : Overlapping(StartActiveGameSession(c, x))
  \/ Overlapping(EndActiveGameSession)
  \/ \E c \in CallIds : Resume(CreateInvokeFactory(c))
  \/ \E c \in CallIds : Resume(CreateFactorySettles(c, "ok", generation))
  \/ \E c \in CallIds, b \in BOOLEAN : Resume(InitSupportSettles(c, b))
  \/ \E c \in CallIds, b \in BOOLEAN : Resume(InitAcquireSettles(c, b))
  \/ \E c \in CallIds, b \in BOOLEAN : Resume(InitRefSpaceSettles(c, b))
  \/ \E c \in CallIds, b \in BOOLEAN : Resume(InitHitTestSettles(c, b))
  \/ \E c \in CallIds, b \in BOOLEAN : Resume(InitBindSettles(c, b))
  \/ \E s \in SessIds : Device(DeviceEndsSession(s))
  \/ \E s \in SessIds : Device(DeliverEndEvent(s))

SpecOverlap == Init /\ [][NextOverlap]_vars

\* A caller that does not wait for createGameInstance() to settle: it may
\* call it again while the first call is suspended at the await of
\* cleanupActiveGame() or at the await of the factory.
OverlappingCreate(A) ==
  /\ \A c \in CallIds : calls[c].op \in {"idle", "create"}
  /\ A
  /\ actor' = "registry"
  /\ UNCHANGED <<generation, eng, announced, app>>

NextCreateOverlap ==
  \/ \E c \in CallIds : OverlappingCreate(CreateGameInstance(c, "simple-ar"))
  \/ Caller(StartActiveGameSession(1, TRUE))
  \/ \E c \in CallIds : Resume(CreateInvokeFactory(c))
  \/ \E c \in CallIds : Resume(CreateFactorySettles(c, "ok", generation))
  \/ \E c \in CallIds, b \in BOOLEAN : Resume(InitSupportSettles(c, b))
  \/ \E c \in CallIds, b \in BOOLEAN : Resume(InitAcquireSettles(c, b))
  \/ \E c \in CallIds, b \in BOOLEAN : Resume(InitRefSpaceSettles(c, b))
  \/ \E c \in CallIds, b \in BOOLEAN : Resume(InitHitTestSettles(c, b))
  \/ \E c \in CallIds, b \in BOOLEAN : Resume(InitBindSettles(c, b))
  \/ \E s \in SessIds : Device(DeviceEndsSession(s))
  \/ \E s \in SessIds : Device(DeliverEndEvent(s))

SpecCreateOverlap == Init /\ [][NextCreateOverlap]_vars

\* A caller that does not wait for startActiveGameSession() to settle before
\* it cleans up the active game or creates the next one.
NextTeardownOverlap ==
  \/ \E c \in CallIds : Overlapping(CreateGameInstance(c, "simple-ar"))
  \/ Caller(StartActiveGameSession(1, TRUE))
  \/ Overlapping(CleanupActiveGame)
  \/ \E c \in CallIds : Resume(CreateInvokeFactory(c))
  \/ \E c \in CallIds : Resume(CreateFactorySettles(c, "ok", generation))
  \/ \E c \in CallIds, b \in BOOLEAN : Resume(InitSupportSettles(c, b))
  \/ \E c \in CallIds, b \in BOOLEAN : Resume(InitAcquireSettles(c, b))
  \/ \E c \in CallIds, b \in BOOLEAN : Resume(InitRefSpaceSettles(c, b))
  \/ \E c \in CallIds, b \in BOOLEAN : Resume(InitHitTestSettles(c, b))
  \/ \E c \in CallIds, b \in BOOLEAN : Resume(InitBindSettles(c, b))
  \/ \E s \in SessIds : Device(DeviceEndsSession(s))
  \/ \E s \in SessIds : Device(DeliverEndEvent(s))

SpecTeardownOverlap == Init /\ [][NextTeardownOverlap]_vars

\* A listener of the registry's window events: for the pair in the slot it
\* keeps the last session notification dispatched (none, started, ended).
\* new is what the step added to the trace.
Heard(new) ==
  LET named(n) == SelectSeq(new, LAMBDA x : x.kind = "event" /\ x.name = n)
  IN IF activeGame = NoGame THEN announced
     ELSE IF named("gameSessionEnded") # <<>>
       THEN [announced EXCEPT ![activeGame.inst] = "ended"]
     ELSE IF named("gameSessionStarted") # <<>>
       THEN [announced EXCEPT ![activeGame.inst] = "started"]
     ELSE announced

CallerHeard(A) ==
  /\ NoCallInFlight /\ A /\ actor' = "registry"
  /\ announced' = Heard(trace')
  /\ UNCHANGED <<generation, eng, app>>

ResumeHeard(A) ==
  /\ A /\ actor' = "registry"
  /\ announced' = Heard(SubSeq(trace', Len(trace) + 1, Len(trace')))
  /\ UNCHANGED <<generation, eng, app>>

NextListener ==
  \/ CallerHeard(CreateGameInstance(1, "simple-ar"))
  \/ CallerHeard(StartActiveGameSession(1, TRUE))
  \/ CallerHeard(EndActiveGameSession)
  \/ CallerHeard(CleanupActiveGame)
  \/ \E c \in CallIds : ResumeHeard(CreateInvokeFactory(c))
  \/ \E c \in CallIds : ResumeHeard(CreateFactorySettles(c, "ok", generation))
  \/ \E c \in CallIds, b \in BOOLEAN : ResumeHeard(InitSupportSettles(c, b))
  \/ \E c \in CallIds, b \in BOOLEAN : ResumeHeard(InitAcquireSettles(c, b))
  \/ \E c \in CallIds, b \in BOOLEAN : ResumeHeard(InitRefSpaceSettles(c, b))
  \/ \E c \in CallIds, b \in BOOLEAN : ResumeHeard(InitHitTestSettles(c, b))
  \/ \E c \in CallIds, b \in BOOLEAN : ResumeHeard(InitBindSettles(c, b))
  \/ \E s \in SessIds : Device(DeviceEndsSession(s))
  \/ \E s \in SessIds : Device(DeliverEndEvent(s))

SpecListener == Init /\ [][NextListener]_vars

\* ------------------------------------------------------------------ ARApp
\* what the page shows after the registry's events of a step were handled:
\* onGameSessionStarted hides the start button and shows the end button,
\* onGameSessionEnded does the reverse
Shown(A, new) ==
  LET named(n) == SelectSeq(new, LAMBDA x : x.kind = "event" /\ x.name = n)
  IN IF named("gameSessionEnded") # <<>>
       THEN [A EXCEPT !.startShown = TRUE, !.endShown = FALSE]
     ELSE IF named("gameSessionStarted") # <<>>
       THEN [A EXCEPT !.startShown = FALSE, !.endShown = TRUE]
     ELSE A

\* startAR() reads the selected game and returns early unless it is playable
CanStartAR ==
  /\ selectedGameId # NULL
  /\ selectedGameId \in DOMAIN games
  /\ games[selectedGameId].isPlayable

\* a startAR() whose createGameInstance() has settled and which is about to
\* go on (no click is handled before it does)
ContinuationPending == \E c \in CallIds : app.start[c] = "create" /\ calls[c].op = "idle"

AppStep(A) == A /\ actor' = "app" /\ UNCHANGED <<generation, eng, announced>>

\* a click on a game of the picker
ClickGame(g) ==
  /\ ~ContinuationPending
  /\ SelectGame(g)
  /\ UNCHANGED app

\* a click on the start button: startAR() up to `await createGameInstance()`
ClickStart(c) ==
  /\ ~ContinuationPending
  /\ app.startShown
  /\ app.start[c] = "idle"
  /\ CanStartAR
  /\ CreateGameInstance(c, NULL)
  /\ app' = [Shown(app, trace') EXCEPT
               !.start[c] = IF calls'[c].op = "create" THEN "create" ELSE "idle"]

\* startAR() goes on after createGameInstance() returned an instance, up to
\* `await startActiveGameSession()`
StartARContinues(c) ==
  /\ app.start[c] = "create"
  /\ calls[c].op = "idle"
  /\ StartActiveGameSession(c, TRUE)
  /\ app' = [Shown(app, trace') EXCEPT
               !.start[c] = IF calls'[c].op = "start" THEN "start" ELSE "idle"]

\* a click on the end button: endAR()
ClickEnd ==
  /\ ~ContinuationPending
  /\ app.endShown
  /\ EndActiveGameSession
  /\ app' = Shown(app, trace')

\* a registry call of a startAR() resumes; startAR() ends when its
\* startActiveGameSession() has returned
AppResume(A) ==
  /\ A
  /\ actor' = "registry"
  /\ app' = [Shown(app, SubSeq(trace', Len(trace) + 1, Len(trace'))) EXCEPT
               !.start = [c \in CallIds |->
                            IF app.start[c] = "start" /\ calls'[c].op = "idle"
                              THEN "idle" ELSE app.start[c]]]
  /\ UNCHANGED <<generation, eng, announced>>

NextApp ==
  \/ AppStep(ClickGame("simple-ar"))
  \/ \E c \in CallIds : AppStep(ClickStart(c))
  \/ \E c \in CallIds : AppStep(StartARContinues(c))
  \/ AppStep(ClickEnd)
  \/ \E c \in CallIds : AppResume(CreateInvokeFactory(c))
  \/ \E c \in CallIds : AppResume(CreateFactorySettles(c, "ok", generation))
  \/ \E c \in CallIds, b \in BOOLEAN : AppResume(InitSupportSettles(c, b))
  \/ \E c \in CallIds, b \in BOOLEAN : AppResume(InitAcquireSettles(c, b))
  \/ \E c \in CallIds, b \in BOOLEAN : AppResume(InitRefSpaceSettles(c, b))
  \/ \E c \in CallIds, b \in BOOLEAN : AppResume(InitHitTestSettles(c, b))
  \/ \E c \in CallIds, b \in BOOLEAN : AppResume(InitBindSettles(c, b))
  \/ \E s \in SessIds : Device(DeviceEndsSession(s))
  \/ \E s \in SessIds : Device(DeliverEndEvent(s))

SpecApp == Init /\ [][NextApp]_vars

\* ------------------------------------------- the interface called directly
\* a holder of the interface object calls one of its methods
Direct(A) == NoCallInFlight /\ A /\ actor' = "interface" /\ UNCHANGED <<generation, eng, announced, app>>

DirectDone(op, i, W) ==
  [op |-> op, arg |-> NULL, ret |-> IF W.threw THEN "throw" ELSE "undefined",
   pre |-> [gameId |-> NULL, inst |-> i], retry |-> FALSE]

\* interface.cleanup() of instance i
InterfaceCleanupCall(i) ==
  /\ i \in 1..Len(inst)
  /\ LET W == InterfaceCleanup([World EXCEPT !.trace = <<>>], i)
     IN /\ inst' = W.inst
        /\ sess' = W.sess
        /\ trace' = W.trace
        /\ last' = DirectDone("interface.cleanup", i, W)
  /\ UNCHANGED <<games, selectedGameId, activeGame, calls>>

\* the user's input reaches a listener of the interface
Input(A) == A /\ actor' = "input" /\ UNCHANGED <<generation, eng, announced, app>>

\* what a select input points at: the exit button or anything else
SelectTargets == {"exit", "scene"}

\* checkExitButtonTap(event): false without an exit button, and false with
\* one, whatever the input source
CheckExitButtonTap(W, i, target) == FALSE

\* onSelect(event): endSession() if the exit button was tapped, else the
\* input goes to handleGameInteraction('select', ...)
LateOnSelect(W, i, target) ==
  LET W1 == Log(W, Step("interface.onSelect", i)) IN
  IF CheckExitButtonTap(W1, i, target) THEN InterfaceEndSession(W1, i)
  ELSE Log(W1, Step("interface.handleGameInteraction", i))

\* the 'select' event of session s is dispatched to the listener that
\* initialize() registered on the session
SelectInput(s, target) ==
  /\ s \in 1..Len(sess)
  /\ sess[s].state = "live"
  /\ sess[s].listener
  /\ inst[sess[s].owner].variant = "late"
  /\ LET i == sess[s].owner
         W == LateOnSelect([World EXCEPT !.trace = <<>>], i, target)
     IN /\ inst' = W.inst
        /\ sess' = W.sess
        /\ trace' = W.trace
        /\ last' = [op |-> "select", arg |-> target,
                    ret |-> IF W.threw THEN "throw" ELSE "undefined",
                    pre |-> [gameId |-> NULL, inst |-> i], retry |-> FALSE]
  /\ UNCHANGED <<games, selectedGameId, activeGame, calls>>

\* One engine/interface pair whose interface is driven by its holder: the
\* registry creates the pair and starts its session, the holder calls the
\* interface's own methods, the device ends sessions.
NextInterface ==
  \/ Caller(CreateGameInstance(1, "simple-ar"))
  \/ Caller(StartActiveGameSession(1, TRUE))
  \/ \E i \in InstIds : Direct(InterfaceCleanupCall(i))
  \/ \E s \in SessIds, target \in SelectTargets : Input(SelectInput(s, target))
  \/ \E c \in CallIds : Resume(CreateInvokeFactory(c))
  \/ \E c \in CallIds : Resume(CreateFactorySettles(c, "ok", generation))
  \/ \E c \in CallIds, b \in BOOLEAN : Resume(InitSupportSettles(c, b))
  \/ \E c \in CallIds, b \in BOOLEAN : Resume(InitAcquireSettles(c, b))
  \/ \E c \in CallIds, b \in BOOLEAN : Resume(InitRefSpaceSettles(c, b))
  \/ \E c \in CallIds, b \in BOOLEAN : Resume(InitHitTestSettles(c, b))
  \/ \E c \in CallIds, b \in BOOLEAN : Resume(InitBindSettles(c, b))
  \/ \E s \in SessIds : Device(DeviceEndsSession(s))
  \/ \E s \in SessIds : Device(DeliverEndEvent(s))

SpecInterface == Init /\ [][NextInterface]_vars

\* The same pair, with the registry also asked to clean up the active game
\* after its holder has used the interface directly.
NextHolder ==
  \/ NextInterface
  \/ Caller(CleanupActiveGame)

SpecHolder == Init /\ [][NextHolder]_vars

Engine(A) ==
  A /\ UNCHANGED <<games, selectedGameId, activeGame, inst, sess, calls, trace,
                   last, actor, generation, announced, app>>

\* The engine as an event bus: collaborators subscribe and unsubscribe
\* callbacks of every kind while the engine's operations publish.
NextBus ==
  \/ \E o \in ObserverIds : Engine(AddObserver(o))
  \/ \E o \in ObserverIds : Engine(RemoveObserver(o))
  \/ Engine(InitializeGame(0))
  \/ Engine(Start)
  \/ Engine(Stop)
  \/ Engine(AnimationFrame)
  \/ Engine(Cleanup)

SpecBus == Init /\ [][NextBus]_vars

\* The engine as game logic: roster and actions, observed by the paired
\* interface's callback.
NextEngine ==
  \/ Engine(AddObserver("plain"))
  \/ Engine(RemoveObserver("plain"))
  \/ \E p \in PlayerIds, d \in PlayerData : Engine(AddPlayer(p, d))
  \/ \E p \in PlayerIds : Engine(RemovePlayer(p))
  \/ \E p \in PlayerIds : Engine(GetNextPlayer(p))
  \/ Engine(InitializeGame(0))
  \/ \E p \in PlayerIds, a \in ActionNames, d \in ActionData : Engine(ProcessAction(p, a, d))
  \/ Engine(Cleanup)

SpecEngine == Init /\ [][NextEngine]_vars

\* The object-placement games: initializeGame with any limit, then objects
\* placed and removed through either generation's operations.
NextPlacement ==
  \/ Engine(AddObserver("plain"))
  \/ \E cfg \in ConfigMaxObjects : Engine(InitializeGame(cfg))
  \/ \E a \in ActionNames, d \in ActionData : Engine(ProcessAction("local-player", a, d))
  \/ Engine(SpawnObject)
  \/ \E k \in ObjectIds : Engine(RemoveObject(k))
  \/ \E t \in InputTypes : Engine(HandleInput(t))
  \/ Engine(Cleanup)

SpecPlacement == Init /\ [][NextPlacement]_vars

\* The abstract-base game engine with its state saved and restored: one
\* player, objects placed and removed, snapshots read back.
NextSnapshot ==
  \/ Engine(AddObserver("plain"))
  \/ Engine(AddPlayer("p1", "none"))
  \/ \E cfg \in ConfigMaxObjects : Engine(InitializeGame(cfg))
  \/ \E a \in ActionNames, d \in ActionData : Engine(ProcessAction("p1", a, d))
  \/ \E snap \in StoredSnapshots : Engine(DeserializeState(snap))
  \/ Engine(RestoreOwnState)
  \/ Engine(Cleanup)

SpecSnapshot == Init /\ [][NextSnapshot]_vars

\* ------------------------------------------------------------------ claims
Events(tr) == SelectSeq(tr, LAMBDA e : e.kind = "event")

InTrace(tr, e) == \E k \in 1..Len(tr) : tr[k] = e

CompletePair(i) == inst[i].hasEngine /\ inst[i].hasInterface

TornDown(i) == inst[i].ifaceCleanups > 0 /\ inst[i].engCleanups > 0

LivePairs == {i \in 1..Len(inst) : CompletePair(i) /\ ~TornDown(i)}

\* C1: while a factory is being awaited the slot is empty and every pair
\* produced so far has had interface.cleanup() and engine.cleanup(), the
\* factory call coming last in the trace after the teardown of the instance
\* that was active; and never is more than one pair live, namely the one in
\* the slot.
C1_TeardownBeforeFactory ==
  /\ \A c \in CallIds :
       (calls[c].op = "create" /\ calls[c].pc = "factory") =>
         /\ activeGame = NoGame
         /\ LivePairs = {}
         /\ trace[Len(trace)] = Call("factory", calls[c].target)
         /\ calls[c].pre # NoGame =>
              \A n \in {"interface.cleanup", "engine.cleanup", "slot.clear"} :
                 \E k \in 1..(Len(trace) - 1) : trace[k] = Step(n, calls[c].pre.inst)
  /\ LivePairs \subseteq {activeGame.inst}

C1_FactoryAfterTeardown ==
  \E c \in CallIds :
     calls[c].op = "create" /\ calls[c].pc = "factory" /\ calls[c].pre # NoGame

\* C2: a createGameInstance that was called with an instance active and
\* produced a new one has published exactly gameInstanceCleaned (for the old
\* game) and then gameInstanceCreated (for the new one) by the time it
\* resolves.
C2_CleanedThenCreated ==
  (last.op = "createGameInstance" /\ last.ret = "instance" /\ last.pre # NoGame) =>
     /\ Events(trace) = <<Evt("gameInstanceCleaned", last.pre.gameId),
                          Evt("gameInstanceCreated", last.arg)>>
     /\ activeGame.gameId = last.arg
     /\ activeGame.inst # last.pre.inst

C2_ReplacedInstance ==
  last.op = "createGameInstance" /\ last.ret = "instance" /\ last.pre # NoGame

\* C3: a registerGame whose id is already present is rejected, so the
\* descriptors stored at construction are retained unchanged.
C3_DuplicateRejected ==
  /\ \A id \in DOMAIN InitialGames : games[id] = InitialGames[id]
  /\ (last.op = "registerGame" /\ last.arg \in DOMAIN InitialGames) => last.ret # "true"

\* C4: selectGame of a registered id returns true, makes it the selection
\* (getSelectedGame returns its descriptor) and publishes gameSelected;
\* selectGame of an unknown id returns false, keeps the selection and
\* publishes nothing.
C4_SelectGame ==
  [][ (actor' = "registry" /\ last'.op = "selectGame") =>
        IF last'.arg \in DOMAIN games
          THEN /\ last'.ret = "true"
               /\ selectedGameId' = last'.arg
               /\ GetSelectedGame' = games[last'.arg]
               /\ trace' = <<Evt("gameSelected", last'.arg)>>
          ELSE /\ last'.ret = "false"
               /\ selectedGameId' = selectedGameId
               /\ trace' = <<>> ]_vars

C4_UnknownKeepsSelection ==
  last.op = "selectGame" /\ last.ret = "false" /\ selectedGameId # NULL

\* C5: createGameInstance with no id and no selection, an unknown id, or a
\* descriptor that is not playable or has no factory returns null at once,
\* leaves the active instance and every pair untouched and publishes nothing.
C5_Ineligible(t) ==
  \/ t = NULL
  \/ t \notin DOMAIN games
  \/ ~games[t].isPlayable
  \/ games[t].createGame = NULL

C5_IneligibleCreateFails ==
  [][ ( /\ actor' = "registry"
        /\ NoCallInFlight
        /\ last'.op = "createGameInstance"
        /\ C5_Ineligible(IF last'.arg # NULL THEN last'.arg ELSE selectedGameId) ) =>
        /\ last'.ret = "null"
        /\ activeGame' = activeGame
        /\ inst' = inst
        /\ sess' = sess
        /\ calls' = calls
        /\ trace' = <<>> ]_vars

C5_RejectedWhileActive ==
  /\ last.op = "createGameInstance"
  /\ last.ret = "null"
  /\ activeGame # NoGame
  /\ last.pre = activeGame
  /\ C5_Ineligible(IF last.arg # NULL THEN last.arg ELSE selectedGameId)

\* C6: the slot only ever holds a pair with both engine and interface; when
\* the factory rejects, returns null or returns an object missing engine or
\* interface, createGameInstance returns null, publishes nothing more and
\* leaves the slot as it was.
C6_FailedFactoryLeavesNoInstance ==
  [][ /\ activeGame' # NoGame =>
           /\ inst'[activeGame'.inst].hasEngine
           /\ inst'[activeGame'.inst].hasInterface
      /\ \A c \in CallIds :
           ( /\ calls[c].op = "create"
             /\ calls[c].pc = "factory"
             /\ calls'[c].op = "idle"
             /\ \/ Len(inst') = Len(inst)
                \/ ~inst'[Len(inst')].hasEngine
                \/ ~inst'[Len(inst')].hasInterface ) =>
             /\ last'.op = "createGameInstance"
             /\ last'.ret = "null"
             /\ activeGame' = activeGame
             /\ Events(trace') = Events(trace) ]_vars

C6_PartialRejected ==
  /\ last.op = "createGameInstance"
  /\ last.ret = "null"
  /\ Len(inst) > 0
  /\ ~CompletePair(Len(inst))
  /\ activeGame = NoGame

\* C7: a createGameInstance that was called with instance X active and
\* returned null leaves X active and not torn down.
C7_RolledBack ==
  (last.op = "createGameInstance" /\ last.ret = "null" /\ last.pre # NoGame) =>
     /\ activeGame = last.pre
     /\ inst[last.pre.inst].ifaceCleanups = 0
     /\ inst[last.pre.inst].engCleanups = 0

\* C8: startActiveGameSession without an active instance returns false and
\* publishes nothing; with one it returns true and publishes
\* gameSessionStarted once exactly when initialize() succeeded, and otherwise
\* returns false and publishes nothing; selection and slot stay as they were.
C8_StartSession ==
  [][ /\ ( /\ actor' = "registry"
           /\ NoCallInFlight
           /\ last'.op = "startActiveGameSession"
           /\ activeGame = NoGame ) =>
           /\ last'.ret = "false"
           /\ trace' = <<>>
           /\ UNCHANGED <<calls, inst, sess, activeGame, selectedGameId>>
      /\ ( /\ actor' = "registry"
           /\ last'.op = "startActiveGameSession"
           /\ last'.ret # "pending"
           /\ activeGame # NoGame ) =>
           LET i  == last'.pre.inst
               ok == InTrace(trace', Step("initialize.ok", i))
           IN /\ last'.ret = (IF ok THEN "true" ELSE "false")
              /\ ok <=> ~InTrace(trace', Step("initialize.failed", i))
              /\ Events(trace') = IF ok THEN <<Evt("gameSessionStarted", activeGame.gameId)>>
                                         ELSE <<>>
              /\ activeGame' = activeGame
              /\ last'.pre = activeGame
              /\ selectedGameId' = selectedGameId ]_vars

C8_RetrySucceeds ==
  last.op = "startActiveGameSession" /\ last.ret = "true" /\ last.retry

\* C9: endActiveGameSession on an instance whose interface is active leaves
\* the instance in the slot, publishes gameSessionEnded once and, when it
\* returns, the interface is no longer active; with no active instance it
\* changes nothing and publishes nothing.
C9_EndLeavesEnded ==
  [][ ( /\ actor' = "registry"
        /\ NoCallInFlight
        /\ last'.op = "endActiveGameSession" ) =>
        IF activeGame = NoGame
          THEN /\ trace' = <<>>
               /\ UNCHANGED <<inst, sess, activeGame>>
          ELSE inst[activeGame.inst].isActive =>
                 /\ activeGame' = activeGame
                 /\ Events(trace') = <<Evt("gameSessionEnded", activeGame.gameId)>>
                 /\ ~inst'[activeGame.inst].isActive ]_vars

\* C10: cleanupActiveGame (called directly or by createGameInstance) calls
\* interface.endSession() if the interface is active, then
\* interface.cleanup(), then engine.cleanup(), then clears the slot, then
\* publishes gameInstanceCleaned with the cleaned game's id; without an
\* active instance it does nothing.
C10_CleanupOrder ==
  [][ ( /\ actor' = "registry"
        /\ NoCallInFlight
        /\ \/ last'.op = "cleanupActiveGame"
           \/ last'.op = "createGameInstance" /\ last'.ret = "pending" ) =>
        IF activeGame = NoGame
          THEN /\ UNCHANGED <<inst, sess, activeGame>>
               /\ last'.op = "cleanupActiveGame" => trace' = <<>>
          ELSE LET i == activeGame.inst IN
               /\ trace' = (IF inst[i].isActive THEN <<Step("interface.endSession", i)>>
                                                ELSE <<>>)
                            \o <<Step("interface.cleanup", i), Step("engine.cleanup", i),
                                 Step("slot.clear", i),
                                 Evt("gameInstanceCleaned", activeGame.gameId)>>
               /\ activeGame' = NoGame
               /\ inst'[i].ifaceCleanups = 1
               /\ inst'[i].engCleanups = 1
               /\ inst'[i].observers = <<>> ]_vars

C10_CleanupOfActiveSession ==
  /\ last.op = "cleanupActiveGame"
  /\ Len(trace) = 5
  /\ trace[1].name = "interface.endSession"

\* the engine's own state, without the record of its last operation
EngineState(E) ==
  [gameState |-> E.gameState, observers |-> E.observers, players |-> E.players,
   placedObjects |-> E.placedObjects, isRunning |-> E.isRunning, frames |-> E.frames]

LogOf(E, ev, k) == SelectSeq(E.log, LAMBDA x : x.ev = ev /\ x.kind = k)
Entered(E, ev) == [i \in 1..Len(LogOf(E, ev, "enter")) |-> LogOf(E, ev, "enter")[i].obs]
Removers == {"selfRemover", "otherRemover"}
Subscribed(q) == {q[k] : k \in 1..Len(q)}

\* C12: when a callback throws for an event (and no callback unsubscribes
\* anybody during the dispatch), every callback subscribed for that event
\* is still called, in order, and the engine operation returns normally.
C12_ObserverIsolation ==
  [][ eng' # eng =>
        /\ eng'.ret # "throw"
        /\ \A ev \in 1..Len(eng'.pub) :
             ( /\ LogOf(eng', ev, "throw") # <<>>
               /\ Subscribed(eng'.pub[ev].subs) \cap Removers = {} ) =>
               Entered(eng', ev) = eng'.pub[ev].subs ]_vars

C12_ThrowerThenOthers ==
  /\ Len(eng.pub) > 0
  /\ eng.pub[1].subs = <<"thrower", "plain">>
  /\ eng.log = << [obs |-> "thrower", ev |-> 1, kind |-> "enter"],
                  [obs |-> "thrower", ev |-> 1, kind |-> "throw"],
                  [obs |-> "plain", ev |-> 1, kind |-> "enter"],
                  [obs |-> "plain", ev |-> 1, kind |-> "return"] >>

\* C13: within an engine operation the deliveries of an earlier published
\* event all come before the deliveries of a later one, and a callback is
\* never entered while a callback is still running.
C13_OrderedDelivery ==
  \A i, j \in 1..Len(eng.log) :
    /\ (i < j) => eng.log[i].ev <= eng.log[j].ev
    /\ (j = i + 1 /\ eng.log[i].kind = "enter") =>
          (eng.log[j].kind # "enter" /\ eng.log[j].obs = eng.log[i].obs)

\* C14: every event an engine operation publishes is delivered exactly once,
\* in subscription order, to every callback subscribed when it was
\* published, whatever the callbacks do.
C14_EverySubscriberCalledOnce ==
  \A ev \in 1..Len(eng.pub) : Entered(eng, ev) = eng.pub[ev].subs

\* C15: cleanup() delivers its final event to every observer subscribed when
\* it was called, leaves nobody subscribed, and ends in state 'cleanup'.
C15_FinalCleanupEvent ==
  [][ eng'.op = "cleanup" /\ eng' # eng =>
        /\ Len(eng'.pub) > 0
        /\ \A o \in Subscribed(eng.observers) :
             \E k \in 1..Len(eng'.log) :
               /\ eng'.log[k].obs = o
               /\ eng'.log[k].kind = "enter"
               /\ eng'.log[k].ev = Len(eng'.pub)
        /\ eng'.observers = <<>>
        /\ eng'.gameState = "cleanup" ]_vars

\* sessions the device still runs for interface i
LiveSessionsOf(S, i) == {s \in 1..Len(S) : S[s].owner = i /\ S[s].state = "live"}

\* C19: when initialize() fails on an interface that was not active, at
\* whatever step, startActiveGameSession returns false and the interface is
\* as before the attempt: not active, holding no session handle, and no
\* session it acquired is left running.
C19_FailedStartRolledBack ==
  [][ \A c \in CallIds :
        ( /\ calls[c].op = "start"
          /\ calls'[c].op = "idle"
          /\ ~inst[calls[c].inst].isActive
          /\ last'.ret = "false" ) =>
          /\ ~inst'[calls[c].inst].isActive
          /\ inst'[calls[c].inst].session = 0
          /\ LiveSessionsOf(sess', calls[c].inst) = {} ]_vars

\* the callback the interface of instance i subscribed is still in its
\* engine's observer collection
StillSubscribed(I, i) ==
  \E k \in 1..Len(I[i].observers) : I[i].observers[k] = SubscribedObserver(I[i].variant)

\* C20: once the interface's teardown has run -- its cleanup(), or its
\* handler of the session's end -- its callback is no longer subscribed to
\* the paired engine.
C20_UnsubscribedAfterTeardown ==
  [][ /\ \A i \in 1..Len(inst) :
           (inst[i].isActive /\ ~inst'[i].isActive) => ~StillSubscribed(inst', i)
      /\ (activeGame # NoGame /\ NoCallInFlight) =>
           LET W == InterfaceCleanup(World, activeGame.inst) IN
           ~W.threw => ~StillSubscribed(W.inst, activeGame.inst) ]_vars

\* endSession() has been called on the active interface of instance i
EndRequested(i) ==
  /\ i \in 1..Len(inst)
  /\ inst[i].isActive
  /\ inst[i].session # 0
  /\ sess[inst[i].session].endCalls > 0

\* the interface of instance i is in its ended state
Ended(i) ==
  /\ i \in 1..Len(inst)
  /\ ~inst[i].isActive
  /\ inst[i].session = 0

\* C17: once endSession() has been called on an active interface, the
\* interface eventually is ended (not active, session handle released),
\* whether or not the device ever dispatches the session's 'end' event.
C17_EndSessionReachesEnded ==
  \A i \in InstIds : EndRequested(i) ~> Ended(i)

\* C16: an initialize() called while the interface is not at rest (active,
\* or with an acquisition in progress) acquires no session, leaves the
\* interface's activity and session handle as they are, and fails.
C16_InitializeWhileBusyIsNoOp ==
  [][ \A c \in CallIds :
        ( /\ calls[c].op = "start"
          /\ calls[c].busy
          /\ calls'[c] # calls[c] ) =>
          /\ Len(sess') = Len(sess)
          /\ inst'[calls[c].inst].isActive = inst[calls[c].inst].isActive
          /\ inst'[calls[c].inst].session = inst[calls[c].inst].session
          /\ calls'[c].op = "idle" => last'.ret = "false" ]_vars

\* C18: when endSession() was called while initialize() was awaiting the
\* session (the session that call then acquires has never been asked to
\* end), the completed initialize() leaves the interface not active and
\* no session of it running.
C18_EndDuringAcquireCancels ==
  [][ \A c \in CallIds :
        ( /\ calls[c].op = "start"
          /\ calls'[c].op = "idle"
          /\ ~calls[c].busy
          /\ last.op = "endActiveGameSession"
          /\ \A s \in 1..Len(sess') :
               sess'[s].owner = calls[c].inst => sess'[s].endCalls = 0 ) =>
          /\ ~inst'[calls[c].inst].isActive
          /\ LiveSessionsOf(sess', calls[c].inst) = {} ]_vars

\* C21: when the device itself ends a session (nobody called end() on it)
\* and its 'end' event reaches the interface, the interface is torn down
\* (not active, handle released) and a gameSessionEnded notification is
\* dispatched.
C21_DeviceEndAnnounced ==
  [][ \A s \in 1..Len(sess) :
        ( /\ sess[s].state = "ending"
          /\ sess'[s].state = "ended"
          /\ sess[s].endCalls = 0
          /\ sess[s].listener ) =>
          /\ ~inst'[sess[s].owner].isActive
          /\ inst'[sess[s].owner].session = 0
          /\ \E k \in (Len(trace) + 1)..Len(trace') :
               /\ trace'[k].kind = "event"
               /\ trace'[k].name = "gameSessionEnded" ]_vars

\* C22: the interface's cleanup() ends the session if the interface is
\* still active and drops the engine reference; a cleanup() that follows a
\* cleanup() of the same interface does not throw and leaves the interface
\* as it was.
C22_CleanupIdempotent ==
  [][ (actor' = "interface" /\ last'.op = "interface.cleanup") =>
        LET i == last'.pre.inst IN
        /\ (inst[i].isActive /\ inst[i].session # 0) =>
              sess'[inst[i].session].endCalls > 0
        /\ last'.ret # "throw" => ~inst'[i].engineRef
        /\ ( /\ last.op = "interface.cleanup"
              /\ last.pre.inst = i
              /\ last.ret # "throw" ) =>
              /\ last'.ret # "throw"
              /\ inst'[i] = [inst[i] EXCEPT !.ifaceCleanups = Bump(@)] ]_vars

InRoster(E, p) == IndexOf(E.players, p) # 0
Published(E) == [k \in 1..Len(E.pub) |-> E.pub[k].name]
UniqueIds(q) == \A j, k \in 1..Len(q) : q[j] = q[k] => j = k

\* C23: addPlayer of an id in the roster and removePlayer of an id not in
\* it return false, publish nothing and leave the roster alone; a
\* successful addPlayer / removePlayer publishes exactly one playerAdded /
\* playerRemoved; the ids in the roster stay unique.
C23_RosterUpdates ==
  [][ eng' # eng =>
        /\ ( \/ eng'.op = "addPlayer" /\ InRoster(eng, eng'.arg)
             \/ eng'.op = "removePlayer" /\ ~InRoster(eng, eng'.arg) ) =>
             /\ eng'.ret = "false"
             /\ eng'.pub = <<>>
             /\ eng'.players = eng.players
        /\ (eng'.op = "addPlayer" /\ ~InRoster(eng, eng'.arg)) =>
             Published(eng') = <<"playerAdded">>
        /\ (eng'.op = "removePlayer" /\ InRoster(eng, eng'.arg)) =>
             Published(eng') = <<"playerRemoved">>
        /\ eng'.op \in {"addPlayer", "removePlayer"} => UniqueIds(eng'.players) ]_vars

RECURSIVE NextTimes(_, _, _)
\* getNextPlayer applied j times, starting from p
NextTimes(E, p, j) == IF j = 0 THEN p ELSE GetNextPlayerOf(E, NextTimes(E, p, j - 1))

\* C24: on a roster of players with distinct ids, getNextPlayer returns the
\* player inserted right after the given one, and the first one after the
\* last; applied as many times as there are players it visits every player
\* once and is back at the start; for an id not in the roster it returns
\* null.
C24_RoundRobin ==
  UniqueIds(eng.players) =>
    \A p \in PlayerIds \cup {"local-player"} :
      LET n == Len(eng.players)
          k == IndexOf(eng.players, p)
          got == GetNextPlayerOf(eng, p)
      IN /\ eng.op = "getNextPlayer" /\ eng.arg = p => eng.ret = got
         /\ k = 0 => got = "null"
         /\ (k # 0 /\ k < n) => got = eng.players[k + 1]
         /\ (k # 0 /\ k = n) => got = eng.players[1]
         /\ k # 0 =>
              /\ NextTimes(eng, p, n) = p
              /\ {NextTimes(eng, p, j) : j \in 1..n} = Subscribed(eng.players)

C24_WrapsToFirst ==
  /\ eng.op = "getNextPlayer"
  /\ eng.players = <<"p2", "p3", "p1">>
  /\ eng.arg = "p1"
  /\ eng.ret = "p2"

\* the payloads of the stateChanged events an operation published
StateChanges(E) ==
  LET ev == SelectSeq(E.pub, LAMBDA e : e.name = "stateChanged")
  IN [k \in 1..Len(ev) |-> ev[k].data]

\* C25: the state of the abstract-base engine changes only through
\* setState: every operation that leaves the engine in another state
\* (initializeGame, deserializeState and cleanup included) publishes exactly
\* one stateChanged event, carrying the state before as previousState and
\* the state after as newState.
C25_StateChangesAnnounced ==
  [][ (IsLate /\ eng'.gameState # eng.gameState) =>
        StateChanges(eng') = <<[previousState |-> eng.gameState,
                                newState |-> eng'.gameState]>> ]_vars

\* an action the engine is to reject: its player is not in the roster, its
\* name is not one of the game's, or its data is missing or names no object
\* to remove
InvalidAction(E, p, action, data) ==
  \/ ~InRoster(E, p)
  \/ action \notin {"placeObject", "removeObject"}
  \/ data = -1
  \/ action = "removeObject" /\ data = 0

\* C26: processAction answers every invalid action with false, never with
\* an exception, and leaves the roster, the state, the placed objects and
\* the limit as they were, publishing nothing.
C26_InvalidActionsRejected ==
  IsLate =>
    \A p \in PlayerIds, action \in ActionNames, data \in ActionData :
      InvalidAction(eng, p, action, data) =>
        LET E == EngineProcessAction(EngBegin, p, action, data)
        IN /\ E.ret = "false"
           /\ SerializeState(E) = SerializeState(eng)
           /\ E.pub = <<>>

\* C27: deserializeState(serializeState()) reproduces the roster, the game
\* state, the placed objects and maxObjects, both on the engine the
\* snapshot was taken from and on a newly constructed engine.
C27_RoundTrip ==
  IsLate =>
    LET snap == SerializeState(eng)
    IN /\ SerializeState(EngineDeserializeState(EngBegin, snap)) = snap
       /\ SerializeState(EngineDeserializeState(NewEngine, snap)) = snap

\* an engine with a player, a placed object and a limit of its own has
\* just read back its own snapshot
C27_RestoredOwnSnapshot ==
  /\ IsLate
  /\ eng.op = "deserializeState" /\ eng.arg = "own"
  /\ eng.gameState = "playing"
  /\ eng.players # <<>> /\ eng.placedObjects # <<>>
  /\ eng.maxObjects # DefaultMaxObjects
  /\ Published(eng) = <<"stateRestored">>

CallsOf(q, name) == SelectSeq(q, LAMBDA x : x.kind = "call" /\ x.name = name)

\* C28: a select input on the exit affordance calls endSession() once, is
\* not forwarded, and the session is no longer running afterwards; any
\* other select input is forwarded exactly once to handleGameInteraction
\* and endSession() is not called.
C28_SelectRouted ==
  [][ (actor' = "input" /\ last'.op = "select") =>
        LET i == last'.pre.inst
            ends == Len(CallsOf(trace', "interface.endSession"))
            forwards == Len(CallsOf(trace', "interface.handleGameInteraction"))
        IN IF last'.arg = "exit"
             THEN /\ ends = 1 /\ forwards = 0
                  /\ sess'[inst[i].session].state # "live"
             ELSE /\ ends = 0 /\ forwards = 1 ]_vars

\* cleanup was invoked on the interface or the engine of pair i
CleanupInvoked(i) == inst[i].ifaceCleanups > 0 \/ inst[i].engCleanups > 0

\* C30: once no createGameInstance call is in flight, every engine/interface
\* pair a factory produced is the active instance or has had cleanup
\* invoked on it, also when two calls overlapped.
C30_NoOrphanPair ==
  NoCallInFlight =>
    \A i \in 1..Len(inst) :
      (inst[i].hasEngine /\ inst[i].hasInterface) =>
        activeGame.inst = i \/ CleanupInvoked(i)

\* C31: an interface that is active is the interface of the registry's
\* active instance, and every running session belongs to the active
\* instance, also when cleanupActiveGame or createGameInstance ran while
\* startActiveGameSession was awaiting initialize().
C31_ActiveInterfaceIsRegistered ==
  /\ \A i \in 1..Len(inst) : inst[i].isActive => activeGame.inst = i
  /\ \A s \in 1..Len(sess) : sess[s].state = "live" => activeGame.inst = sess[s].owner

\* the notifications of the given name in a trace
EventsOf(q, name) == SelectSeq(q, LAMBDA x : x.kind = "event" /\ x.name = name)

\* C32: when cleanupActiveGame() returns, the active slot is empty, and if
\* an instance was active, gameInstanceCleaned has been published exactly
\* once, for that instance; also when endSession() or a cleanup() throws.
C32_CleanupAlwaysClearsSlot ==
  [][ (actor' = "registry" /\ NoCallInFlight /\ last'.op = "cleanupActiveGame") =>
        /\ activeGame' = NoGame
        /\ LET cleaned == EventsOf(trace', "gameInstanceCleaned")
           IN IF activeGame = NoGame THEN cleaned = <<>>
              ELSE /\ Len(cleaned) = 1
                   /\ cleaned[1].gameId = activeGame.gameId ]_vars

\* C33: gameSessionEnded is published only for an instance whose session
\* was announced by gameSessionStarted and has not been announced as ended
\* since, and once.
C33_SessionEventsBracketed ==
  [][ ( /\ actor' = "registry" /\ NoCallInFlight
        /\ last'.op = "endActiveGameSession"
        /\ EventsOf(trace', "gameSessionEnded") # <<>> ) =>
        /\ Len(EventsOf(trace', "gameSessionEnded")) = 1
        /\ activeGame # NoGame
        /\ announced[activeGame.inst] = "started" ]_vars

\* C34: for every session acquired, session.end() is called at most once.
C34_ReleaseRequestedOnce ==
  \A s \in 1..Len(sess) : sess[s].endCalls <= 1

\* C35: when the 'end' event of a session is delivered after cleanup() of
\* its interface has run, the end handler returns without raising an error.
C35_EndHandlerAfterCleanup ==
  [][ \A s \in 1..Len(sess) :
        ( /\ actor' = "device"
          /\ sess[s].state = "ending" /\ sess'[s].state = "ended"
          /\ sess[s].listener
          /\ inst[sess[s].owner].ifaceCleanups > 0 ) =>
          ~InterfaceOnEnd([World EXCEPT !.sess[s].state = "ended"], sess[s].owner).threw ]_vars

\* C36: the loop-driven engine has at most one game-loop callback pending,
\* whatever sequence of start() and stop() was called.
C36_OneLoopChain ==
  ~IsLate => eng.frames <= 1

\* a startAR() invocation other than the one taking the step is running
OtherStartARRunning(c) == \E d \in CallIds \ {c} : app.start[d] # "idle"

\* C37: ARApp issues createGameInstance and startActiveGameSession only
\* when no other startAR() is still running, and endActiveGameSession only
\* when no startAR() is running at all.
C37_AppIsCorrectCaller ==
  [][ actor' = "app" =>
        /\ \A c \in CallIds :
             (app'.start[c] # app.start[c] /\ app'.start[c] # "idle") =>
               ~OtherStartARRunning(c)
        /\ (last'.op = "endActiveGameSession" /\ app'.start = app.start) =>
              \A c \in CallIds : app.start[c] = "idle" ]_vars

\* the operation just performed asked for an object to be placed
PlaceRequested(E) ==
  \/ E.op = "processAction" /\ E.arg = "placeObject"
  \/ E.op = "spawnObject"
  \/ E.op = "handleInput" /\ E.arg \in {"tap", "spawn"}

\* the operation just performed was a place or remove operation
PlaceOrRemove(E) ==
  E.op \in {"processAction", "spawnObject", "removeObject", "handleInput"}

\* C38: starting from initializeGame, no place or remove operation takes
\* the number of placed objects above maxObjects, and a place request made
\* with maxObjects objects placed adds no object and publishes no event.
C38_ObjectLimitKept ==
  [][ /\ (eng'.op = "initializeGame" /\ eng.placedObjects = <<>>) =>
           Len(eng'.placedObjects) <= eng'.maxObjects
      /\ (PlaceOrRemove(eng') /\ Len(eng.placedObjects) <= eng.maxObjects) =>
           /\ Len(eng'.placedObjects) <= eng'.maxObjects
           /\ (PlaceRequested(eng') /\ Len(eng.placedObjects) = eng.maxObjects) =>
                /\ eng'.placedObjects = eng.placedObjects
                /\ eng'.pub = <<>>
                /\ eng'.ret \in {"false", "null", "undefined"} ]_vars

\* a placeObject has just been refused with the limit reached, after
\* initializeGame set a limit below the default
C38_RefusedAtLimit ==
  /\ eng.op = "processAction" /\ eng.arg = "placeObject" /\ eng.ret = "false"
  /\ eng.gameState = "playing"
  /\ eng.maxObjects < DefaultMaxObjects
  /\ Len(eng.placedObjects) = eng.maxObjects

==============================================================================
